---- MODULE Spec2Model ----
(***************************************************************************)
(* A model of airio/dataset_providers.py: Task, Mixture and _split_seed.   *)
(*                                                                         *)
(* Objects are numbered: Tasks are 1..NumTasks, the k-th Mixture that was  *)
(* constructed is NumTasks + k.  A Mixture can only name objects that      *)
(* already exist, so the component graph is acyclic by construction, as in *)
(* Python.  Proportions are exact rationals <<n, d>> (d > 0); <<0, 0>>     *)
(* stands for a raised ZeroDivisionError.  None is the Python None of an   *)
(* integer-or-None parameter.                                              *)
(***************************************************************************)
EXTENDS Integers, Sequences, FiniteSets, TLC

VARIABLES
  preps,       \* Task._preprocessors of every Task
  mixtures,    \* the Mixtures constructed so far: _tasks_or_mixtures, _proportions
  leaf_cache,  \* functools.cached_property storage of Mixture.leaf_tasks
  ret,         \* the last call and what it returned or raised
  again        \* the result of repeating the last get_dataset call unchanged

vars == <<preps, mixtures, leaf_cache, ret, again>>

\* ---------------------------------------------------------------- bounds
NumTasks == 3
MaxMix == 2
MaxComps == 2
MaxWeight == 1
MaxPropWeight == 3

None == 0 - 1

TaskIds == 1..NumTasks
Weights == 0..MaxWeight

\* Task.name, as a code that orders like the string: Task 1 sorts after
\* Tasks 2 and 3, which share one name.
TaskName(t) == IF t = 1 THEN 2 ELSE 1

\* ------------------------------------------------------------ sequences
Range(s) == {s[i] : i \in 1..Len(s)}

SeqsUpTo(S, n) == UNION {[1..k -> S] : k \in 0..n}

Perms(S) == {p \in [1..Cardinality(S) -> S] : Range(p) = S}

Min(a, b) == IF a < b THEN a ELSE b

\* ------------------------------------------------------------ rationals
RECURSIVE GCD(_, _)
GCD(a, b) == IF b = 0 THEN a ELSE GCD(b, a % b)

Norm(n, d) == LET g == GCD(n, d) IN <<n \div g, d \div g>>

Raised == <<0, 0>>

Rat(n) == <<n, 1>>

RAdd(a, b) ==
  IF a[2] = 0 \/ b[2] = 0 THEN Raised
  ELSE Norm(a[1] * b[2] + b[1] * a[2], a[2] * b[2])

RMul(a, b) ==
  IF a[2] = 0 \/ b[2] = 0 THEN Raised
  ELSE Norm(a[1] * b[1], a[2] * b[2])

\* Python's / raises ZeroDivisionError on a zero divisor, float or int.
RDiv(a, b) ==
  IF a[2] = 0 \/ b[2] = 0 \/ b[1] = 0 THEN Raised
  ELSE Norm(a[1] * b[2], a[2] * b[1])

\* ------------------------------------------------------------- objects
\* hash(obj) of an object without __hash__: derived from its address, so
\* distinct live objects hash differently.
Hash(o) == 16 * o

IsTask(o) == o \in TaskIds

MixIdx(m) == m - NumTasks

MixIds == {NumTasks + k : k \in 1..Len(mixtures)}

IsMixture(o) == o \in MixIds

Objs == TaskIds \cup MixIds

\* A dict as the sequence of its <<key, value>> items in insertion order.
DictKeys(d) == {d[i][1] : i \in 1..Len(d)}

DictGet(d, k) == LET i == CHOOSE j \in 1..Len(d) : d[j][1] = k IN d[i][2]

DictSet(d, k, v) ==
  IF k \in DictKeys(d)
  THEN [i \in 1..Len(d) |-> IF d[i][1] = k THEN <<k, v>> ELSE d[i]]
  ELSE Append(d, <<k, v>>)

RECURSIVE DictZip(_, _, _)
DictZip(ks, vs, i) ==
  IF i = 0 THEN <<>>
  ELSE DictSet(DictZip(ks, vs, i - 1), ks[i], vs[i])

\* dict(zip(ks, vs)): zip stops at the shorter sequence.
DictOfZip(ks, vs) == DictZip(ks, vs, Min(Len(ks), Len(vs)))

DictValues(d) == [i \in 1..Len(d) |-> d[i][2]]

Mix(m) == mixtures[MixIdx(m)]

\* ------------------------------------------------------ Mixture.__init__
InitRaisesLengthOnly(tasks, proportions) == Len(tasks) # Len(proportions)

\* The two checks of the constructor; TRUE when it raises ValueError.
InitRaises(tasks, proportions) ==
  LET hashes == [i \in 1..Len(tasks) |-> Hash(tasks[i])] IN
  \/ Len(tasks) # Len(proportions)
  \/ Cardinality(Range(hashes)) # Len(tasks)

NewMixture(tasks, proportions) ==
  LET hashes == [i \in 1..Len(tasks) |-> Hash(tasks[i])] IN
  [tom   |-> DictOfZip(hashes, tasks),
   props |-> DictOfZip(hashes, proportions)]

\* ------------------------------------------------ Mixture.tasks_or_mixtures
tasks_or_mixtures(m) == DictValues(Mix(m).tom)

\* Mixture.total_proportion: sum(self._proportions.values())
RECURSIVE SumWeights(_, _)
SumWeights(d, i) == IF i = 0 THEN 0 ELSE SumWeights(d, i - 1) + d[i][2]

total_proportion_count(m) == Rat(Len(Mix(m).props))

total_proportion(m) == Rat(SumWeights(Mix(m).props, Len(Mix(m).props)))

\* ------------------------------------------------------ Mixture.leaf_tasks
\* sorted(..., key=name) is stable: an insertion sort that keeps ties in
\* their incoming order.
RECURSIVE InsertByName(_, _)
InsertByName(s, t) ==
  IF s = <<>> THEN <<t>>
  ELSE IF TaskName(s[Len(s)]) <= TaskName(t) THEN Append(s, t)
  ELSE Append(InsertByName(SubSeq(s, 1, Len(s) - 1), t), s[Len(s)])

RECURSIVE SortedByName(_)
SortedByName(s) ==
  IF s = <<>> THEN <<>>
  ELSE InsertByName(SortedByName(SubSeq(s, 1, Len(s) - 1)), s[Len(s)])

\* Iterating set(l) visits every element once, in an order the language
\* leaves open: any permutation of the elements.
SetIters(l) == Perms(Range(l))

RECURSIVE SumLists(_, _, _)
SumLists(lists, start, i) ==
  IF i = 0 THEN start ELSE SumLists(lists, start, i - 1) \o lists[i]

\* The body of the property, given the cached leaf_tasks of the sub-Mixtures:
\* the lists it can return.
LeafTasksBody(m, cache) ==
  LET all_      == tasks_or_mixtures(m)
      tasks     == SelectSeq(all_, IsTask)
      mixs      == SelectSeq(all_, IsMixture)
      sub_tasks == [i \in 1..Len(mixs) |-> cache[MixIdx(mixs[i])].val]
  IN {SortedByName(o) : o \in SetIters(SumLists(sub_tasks, tasks, Len(sub_tasks)))}

\* cached_property: the first read computes (reading the sub-Mixtures'
\* leaf_tasks first, in component order, which caches them too) and stores;
\* later reads return the stored list.  The caches a read can leave behind.
RECURSIVE FillCaches(_, _)
RECURSIVE FillSubs(_, _, _)
FillSubs(subs, i, cache) ==
  IF i = 0 THEN {cache}
  ELSE UNION {IF IsMixture(subs[i]) THEN FillCaches(subs[i], c) ELSE {c} :
                c \in FillSubs(subs, i - 1, cache)}

FillCachesNoCache(m, cache) ==
  LET subs == tasks_or_mixtures(m) IN
  UNION {{[c EXCEPT ![MixIdx(m)] = [set |-> TRUE, val |-> v]] :
            v \in LeafTasksBody(m, c)} :
          c \in FillSubs(subs, Len(subs), cache)}

FillCaches(m, cache) ==
  IF cache[MixIdx(m)].set THEN {cache}
  ELSE LET subs == tasks_or_mixtures(m) IN
       UNION {{[c EXCEPT ![MixIdx(m)] = [set |-> TRUE, val |-> v]] :
                 v \in LeafTasksBody(m, c)} :
               c \in FillSubs(subs, Len(subs), cache)}

leaf_tasks(m, cache) == cache[MixIdx(m)].val

Unset == [set |-> FALSE, val |-> <<>>]

\* ---------------------------------------------------- Mixture.get_proportion
RECURSIVE get_proportion(_, _, _)
RECURSIVE SubProportions(_, _, _, _, _)
RECURSIVE SubProportionsNoNorm(_, _, _, _, _)
SubProportionsNoNorm(m, task, cache, i, prop) ==
  IF i = 0 THEN prop
  ELSE LET p   == SubProportionsNoNorm(m, task, cache, i - 1, prop)
           sub == tasks_or_mixtures(m)[i]
       IN IF IsMixture(sub) /\ task \in Range(leaf_tasks(sub, cache))
          THEN RAdd(p, RMul(Rat(DictGet(Mix(m).props, Hash(sub))),
                            get_proportion(sub, task, cache)))
          ELSE p

SubProportions(m, task, cache, i, prop) ==
  IF i = 0 THEN prop
  ELSE LET p   == SubProportions(m, task, cache, i - 1, prop)
           sub == tasks_or_mixtures(m)[i]
       IN IF IsMixture(sub) /\ task \in Range(leaf_tasks(sub, cache))
          THEN RAdd(p, RDiv(RMul(Rat(DictGet(Mix(m).props, Hash(sub))),
                                 get_proportion(sub, task, cache)),
                            total_proportion(sub)))
          ELSE p

get_proportion_leaf_first(m, task, cache) ==
  LET task_hash == Hash(task)
      prop == IF task_hash \in DictKeys(Mix(m).props)
              THEN RAdd(Rat(0), Rat(DictGet(Mix(m).props, task_hash)))
              ELSE Rat(0)
  IN IF task \notin Range(leaf_tasks(m, cache)) THEN Rat(0)
     ELSE SubProportions(m, task, cache, Len(tasks_or_mixtures(m)), prop)

get_proportion(m, task, cache) ==
  LET task_hash == Hash(task)
      prop == IF task_hash \in DictKeys(Mix(m).props)
              THEN RAdd(Rat(0), Rat(DictGet(Mix(m).props, task_hash)))
              ELSE Rat(0)
  IN IF task \notin Range(leaf_tasks(m, cache)) THEN prop
     ELSE SubProportions(m, task, cache, Len(tasks_or_mixtures(m)), prop)

\* ------------------------------------------------------------ call records
NoCall == [op |-> "none", m |-> 0, x |-> 0, raised |-> FALSE,
           args |-> <<>>, val |-> <<>>]

\* ---------------------------------------------------------------- actions
\* Mixture(name, tasks, proportions)
Construct ==
  /\ Len(mixtures) < MaxMix
  /\ \E tasks \in SeqsUpTo(Objs, MaxComps), proportions \in SeqsUpTo(Weights, MaxComps) :
       IF InitRaises(tasks, proportions)
       THEN /\ ret' = [NoCall EXCEPT !.op = "Mixture", !.raised = TRUE,
                                     !.args = <<tasks, proportions>>]
            /\ UNCHANGED <<mixtures, leaf_cache>>
       ELSE /\ mixtures' = Append(mixtures, NewMixture(tasks, proportions))
            /\ leaf_cache' = Append(leaf_cache, Unset)
            /\ ret' = [NoCall EXCEPT !.op = "Mixture",
                                     !.m = NumTasks + Len(mixtures) + 1,
                                     !.args = <<tasks, proportions>>]
  /\ UNCHANGED <<preps, again>>

\* m.leaf_tasks
ReadLeafTasks ==
  /\ \E m \in MixIds : \E c \in FillCaches(m, leaf_cache) :
       /\ leaf_cache' = c
       /\ ret' = [NoCall EXCEPT !.op = "leaf_tasks", !.m = m,
                                !.val = leaf_tasks(m, c)]
  /\ UNCHANGED <<preps, mixtures, again>>

\* m.get_proportion(x)
GetProportion ==
  /\ \E m \in MixIds, x \in Objs : \E c \in FillCaches(m, leaf_cache) :
       LET p == get_proportion(m, x, c) IN
       /\ leaf_cache' = c
       /\ ret' = [NoCall EXCEPT !.op = "get_proportion", !.m = m, !.x = x,
                                !.raised = (p = Raised), !.val = p]
  /\ UNCHANGED <<preps, mixtures, again>>

InitPreps == [t \in TaskIds |-> <<>>]

\* Nothing constructed yet but the Tasks.
Init ==
  /\ preps = InitPreps
  /\ mixtures = <<>>
  /\ leaf_cache = <<>>
  /\ ret = NoCall
  /\ again = NoCall

Next == Construct \/ ReadLeafTasks \/ GetProportion

Spec == Init /\ [][Next]_vars

\* ------------------------------------------------- nested-proportion worlds
\* Two Mixtures already constructed, an inner one of Tasks and an outer one
\* that may name it: every weighting of a family of shapes that holds the
\* nested, the shared-Task (direct and nested) and the empty sub-Mixture cases.
PropWeights == 0..MaxPropWeight

InnerShapes == {<<2, 3>>, <<2>>, <<>>}

OuterShapes == {<<NumTasks + 1, 1>>, <<1, NumTasks + 1>>, <<NumTasks + 1, 2>>,
                <<NumTasks + 1>>}

InitProp ==
  /\ preps = InitPreps
  /\ \E t1 \in InnerShapes, t2 \in OuterShapes :
       \E p1 \in [1..Len(t1) -> PropWeights], p2 \in [1..Len(t2) -> PropWeights] :
          mixtures = <<NewMixture(t1, p1), NewMixture(t2, p2)>>
  /\ leaf_cache = <<Unset, Unset>>
  /\ ret = NoCall
  /\ again = NoCall

NextProp == ReadLeafTasks \/ GetProportion

SpecProp == InitProp /\ [][NextProp]_vars

\* =========================================================== data pipelines
DEFAULT_NUM_RECORDS_TO_INSPECT == 2
MAX_NUM_RECORDS_TO_INSPECT == 1000

MaxEpochs == 2
MaxOps == 2
BatchSize == 2

\* np.random.RandomState(seed).randint(0, 2**16 - 1) twice, for the integer
\* seeds the bounded runs reach: <<seed, first draw, second draw>>, the values
\* numpy's MT19937 produces (legacy integer seeding, 32-bit draws masked to
\* 16 bits and redrawn above 65534).
SeedTable ==
  {<<0, 2732, 43567>>, <<1, 62501, 33003>>, <<356, 57111, 47064>>,
   <<592, 65526, 52550>>, <<985, 31174, 30278>>, <<1046, 42598, 592>>,
   <<1514, 56398, 52748>>, <<1651, 48178, 1819>>, <<2325, 18185, 53171>>,
   <<2450, 20967, 65>>, <<2717, 17166, 51455>>, <<2732, 43502, 25522>>,
   <<3237, 40786, 43565>>, <<3515, 55102, 27896>>, <<4323, 63578, 60341>>,
   <<4386, 46358, 59124>>, <<4447, 47614, 4711>>, <<4535, 26308, 63243>>,
   <<4978, 1651, 32086>>, <<6350, 12321, 3097>>, <<6944, 9223, 60992>>,
   <<9223, 26998, 591>>, <<9607, 24043, 5041>>, <<10461, 53448, 63878>>,
   <<10505, 53364, 17654>>, <<10526, 2717, 56104>>, <<11473, 3515, 33967>>,
   <<12063, 61493, 16644>>, <<12246, 6350, 49098>>, <<12321, 53473, 23591>>,
   <<12489, 21654, 26376>>, <<12569, 45259, 356>>, <<12653, 36081, 15004>>,
   <<13524, 52830, 52246>>, <<14597, 48402, 32050>>, <<15725, 37078, 32874>>,
   <<15848, 26549, 37355>>, <<16023, 12569, 26784>>, <<16349, 10526, 31396>>,
   <<16467, 36146, 34015>>, <<17166, 65018, 55995>>, <<18014, 16349, 18560>>,
   <<18185, 51311, 21794>>, <<18764, 63967, 50350>>, <<19223, 38136, 21701>>,
   <<19623, 4978, 5539>>, <<20277, 10505, 24240>>, <<20967, 33763, 30407>>,
   <<21654, 28749, 41325>>, <<22019, 45259, 13744>>, <<22715, 55226, 27494>>,
   <<23487, 50184, 32601>>, <<23776, 1514, 17565>>, <<23836, 52224, 8019>>,
   <<23924, 47570, 2601>>, <<24043, 30370, 12501>>, <<24306, 41764, 43728>>,
   <<25522, 49686, 16627>>, <<26308, 40757, 62700>>, <<26549, 60800, 34314>>,
   <<26784, 23776, 64622>>, <<26998, 42611, 50402>>, <<27519, 13524, 47852>>,
   <<28016, 40211, 18764>>, <<28568, 59463, 43559>>, <<28622, 15725, 951>>,
   <<28749, 62449, 7828>>, <<29570, 49604, 15787>>, <<30327, 56640, 9194>>,
   <<30370, 58316, 20669>>, <<31174, 3237, 34005>>, <<31551, 4323, 20348>>,
   <<31903, 10461, 17394>>, <<32652, 36500, 17726>>, <<33003, 37753, 39521>>,
   <<36081, 32685, 25640>>, <<36146, 20277, 37357>>, <<36500, 24306, 39114>>,
   <<36841, 27519, 57957>>, <<37529, 2325, 20963>>, <<37753, 12489, 51677>>,
   <<37797, 28016, 48546>>, <<38136, 39557, 36208>>, <<39776, 55828, 16064>>,
   <<40211, 35798, 4535>>, <<40757, 23924, 35282>>, <<40786, 62413, 4361>>,
   <<41764, 46090, 34912>>, <<42072, 4447, 57820>>, <<42185, 6777, 44553>>,
   <<42598, 37797, 56079>>, <<42611, 455, 38011>>, <<43124, 62207, 62775>>,
   <<43502, 63779, 23836>>, <<43567, 22715, 27459>>, <<45209, 64370, 41803>>,
   <<45259, 28622, 32652>>, <<46090, 6944, 42671>>, <<46358, 59169, 61445>>,
   <<47570, 31551, 5496>>, <<47614, 16467, 18898>>, <<48178, 15848, 25246>>,
   <<48402, 12653, 34395>>, <<48546, 4386, 30209>>, <<49572, 3359, 11509>>,
   <<49604, 11473, 17748>>, <<49686, 31903, 7325>>, <<49870, 30327, 12834>>,
   <<50184, 53224, 18874>>, <<50876, 36841, 18848>>, <<51311, 42185, 46195>>,
   <<52224, 9607, 421>>, <<52550, 29570, 39362>>, <<52830, 60118, 63206>>,
   <<53149, 10794, 18014>>, <<53224, 59243, 31247>>, <<53309, 19223, 18418>>,
   <<53448, 12246, 10437>>, <<53473, 1448, 57772>>, <<54488, 15270, 50963>>,
   <<55102, 45209, 20927>>, <<55226, 39776, 18417>>, <<55828, 63033, 17508>>,
   <<55870, 22019, 27559>>, <<56079, 52550, 36300>>, <<56398, 61962, 46010>>,
   <<56640, 17710, 44862>>, <<57111, 42072, 2892>>, <<58316, 49870, 10023>>,
   <<59169, 55870, 14790>>, <<59243, 50876, 57442>>, <<59463, 54488, 29376>>,
   <<60800, 44432, 35891>>, <<61493, 37529, 43884>>, <<61962, 14597, 3391>>,
   <<62207, 985, 46055>>, <<62413, 2450, 35504>>, <<62449, 33003, 31110>>,
   <<62501, 16023, 43124>>, <<63033, 28568, 36124>>, <<63578, 49572, 27046>>,
   <<63779, 53149, 23487>>, <<63967, 19623, 50382>>, <<64370, 29216, 28623>>,
   <<65018, 53309, 59669>>, <<65526, 12063, 30270>>}

SeedDraws ==
  [s \in {r[1] : r \in SeedTable} |->
     LET e == CHOOSE r \in SeedTable : r[1] = s IN <<e[2], e[3]>>]

SplitInt(seed) == SeedDraws[seed]

\* RandomState(None) seeds itself from OS entropy: each call may behave like
\* a different seeding.
EntropySeeds == {0, 1}

\* _split_seed: the pairs a call can return.
_split_seed(seed) ==
  IF seed = None THEN {SplitInt(e) : e \in EntropySeeds} ELSE {SplitInt(seed)}

\* Preprocessing operations are opaque to this layer: a kind and a number.
Prep(n) == [kind |-> "prep", n |-> n]

\* feature_converter.get_transforms(sequence_lengths) of the one converter.
FcTransforms == <<[kind |-> "fc", n |-> 1], [kind |-> "fc", n |-> 2]>>

\* `if x:` on an int-or-None.
Truthy(x) == x # None /\ x # 0

NoSharding == <<>>

\* The argument values the calls draw from.
Seeds == {None, 1046}
NumEpochs == {None} \cup 0..MaxEpochs
BatchSizes == {None, BatchSize}
ShardInfos == {NoSharding, <<0, 2>>}
NumRecords == {0, 1, MAX_NUM_RECORDS_TO_INSPECT + 1}

\* Arguments of one call; a call reads the fields it has a parameter for.
OpConfigs ==
  [fc : BOOLEAN, batch_size : BatchSizes, shuffle : {TRUE}, seed : {0},
   shard_info : {NoSharding}, num_epochs : {1}, num_records : {1}]

StepConfigs ==
  [fc : BOOLEAN, batch_size : BatchSizes, shuffle : BOOLEAN, seed : {0},
   shard_info : {NoSharding}, num_epochs : {1}, num_records : NumRecords]

SeedConfigs ==
  [fc : {FALSE}, batch_size : {None}, shuffle : BOOLEAN, seed : Seeds,
   shard_info : {NoSharding}, num_epochs : NumEpochs, num_records : {1}]

ShardedSeedConfigs ==
  [fc : {FALSE}, batch_size : {None}, shuffle : BOOLEAN, seed : Seeds,
   shard_info : ShardInfos, num_epochs : NumEpochs, num_records : {1}]

PostMixConfigs ==
  [fc : BOOLEAN, batch_size : BatchSizes, shuffle : BOOLEAN, seed : {1046},
   shard_info : {NoSharding}, num_epochs : NumEpochs, num_records : {1}]

\* source.num_input_examples(split) of the Task's source.
num_input_examples(t) == 4 + t

\* Task.get_preprocessors: a copy of the list.
get_preprocessors(t) == preps[t]

\* The operation list Task.get_dataset and get_dataset_by_step assemble.
TaskOps(t, cfg) ==
  get_preprocessors(t)
    \o (IF cfg.fc THEN FcTransforms ELSE <<>>)
    \o (IF Truthy(cfg.batch_size)
        THEN <<[kind |-> "BatchOperation", n |-> cfg.batch_size]>> ELSE <<>>)

\* Task._load_data: the loader over source, sampler and operations; reading
\* it yields the records that triple determines.
LoadData(source, sampler, ops) ==
  [source |-> source, sampler |-> sampler, ops |-> ops]

\* Task.get_dataset
TaskGetDataset(t, cfg) ==
  LoadData(t,
           [num_records |-> num_input_examples(t),
            shard |-> cfg.shard_info, shuffle |-> cfg.shuffle,
            num_epochs |-> cfg.num_epochs, seed |-> cfg.seed],
           TaskOps(t, cfg))

\* The loop of get_dataset_by_step: after the i-th append to accumulated_ops
\* the loader over that list is read at once.
RECURSIVE StepsLoopAliased(_, _, _, _)
StepsLoopAliased(source, sampler, all_ops, i) ==
  IF i = 0 THEN <<LoadData(source, sampler, <<>>)>>
  ELSE Append(StepsLoopAliased(source, sampler, all_ops, i - 1),
              LoadData(source, sampler, all_ops))

RECURSIVE StepsLoop(_, _, _, _)
StepsLoop(source, sampler, all_ops, i) ==
  IF i = 0 THEN <<LoadData(source, sampler, <<>>)>>
  ELSE Append(StepsLoop(source, sampler, all_ops, i - 1),
              LoadData(source, sampler, SubSeq(all_ops, 1, i)))

ClampRecords(n) ==
  IF n < 1 THEN DEFAULT_NUM_RECORDS_TO_INSPECT
  ELSE IF n > MAX_NUM_RECORDS_TO_INSPECT THEN MAX_NUM_RECORDS_TO_INSPECT
  ELSE n

\* Task.get_dataset_by_step
TaskGetDatasetByStep(t, cfg) ==
  LET sampler == [num_records |-> ClampRecords(cfg.num_records),
                  shard |-> NoSharding, shuffle |-> cfg.shuffle,
                  num_epochs |-> 1, seed |-> cfg.seed]
      all_ops == TaskOps(t, cfg)
  IN IF all_ops = <<>> THEN <<LoadData(t, sampler, <<>>)>>
     ELSE StepsLoop(t, sampler, all_ops, Len(all_ops))

\* Step 3 of get_task_lazy_dataset: preps is task._preprocessors itself, so
\* extend and append change the Task's list.  The list afterwards.
LazyPreps(chain, cfg) ==
  chain
    \o (IF cfg.fc THEN FcTransforms ELSE <<>>)
    \o (IF Truthy(cfg.batch_size)
        THEN <<[kind |-> "Batch", n |-> cfg.batch_size]>> ELSE <<>>)

\* Step 2: how many references of the post-shard dataset are made.
NumReplicas(num_epochs) == IF Truthy(num_epochs) THEN num_epochs ELSE 1

\* The seed the i-th preprocessor of an epoch receives.
RECURSIVE PrepSeed(_, _)
PrepSeed(prep_seed, i) ==
  IF i = 1 THEN prep_seed ELSE SplitInt(PrepSeed(prep_seed, i - 1))[1]

\* One pass of the epoch loop, from the pair the first split returned.
LazyEpoch(ds, pair, chain, shuffle) ==
  LET s == SplitInt(pair[2]) IN
  [base    |-> ds,
   preps   |-> [i \in 1..Len(chain) |-> <<chain[i], PrepSeed(s[1], i)>>],
   shuffle |-> IF shuffle THEN s[2] ELSE None]

RECURSIVE LazyEpochs(_, _, _, _, _)
LazyEpochs(ds, n, pair, chain, shuffle) ==
  IF n = 0 THEN <<>>
  ELSE <<LazyEpoch(ds, pair, chain, shuffle)>>
         \o (IF n = 1 THEN <<>>
             ELSE LazyEpochs(ds, n - 1, SplitInt(pair[1]), chain, shuffle))

\* Mixture.get_task_lazy_dataset: the datasets a call can return (one for an
\* integer seed).  Steps 1 to 4: source and shard, epochs, preprocess and
\* shuffle, concatenate.
TaskLazyDatasets(task, cfg, chain) ==
  LET ds == [source |-> task, shard |-> cfg.shard_info]
      n  == NumReplicas(cfg.num_epochs)
      ps == LazyPreps(chain, cfg)
  IN {[concat |-> n # 1,
       epochs |-> LazyEpochs(ds, n, pair, ps, cfg.shuffle)] :
        pair \in _split_seed(cfg.seed)}

\* Every way to pick one element of sets[i] for each i.
RECURSIVE Product(_, _)
Product(sets, i) ==
  IF i = 0 THEN {<<>>}
  ELSE {Append(s, e) : s \in Product(sets, i - 1), e \in sets[i]}

LazyRaisesNever(cfg) == FALSE

\* The check at the head of Mixture.get_lazy_dataset.
LazyRaises(cfg) == cfg.num_epochs = None /\ cfg.shuffle

PostMixPreps(cfg) ==
  (IF cfg.fc THEN FcTransforms ELSE <<>>)
    \o (IF Truthy(cfg.batch_size)
        THEN <<[kind |-> "BatchKeepRemainder", n |-> cfg.batch_size]>> ELSE <<>>)

\* What get_lazy_dataset builds, in building order.
BuildLog(leaf, cfg) ==
  [i \in 1..Len(leaf) |-> "task"] \o <<"mix">>
    \o [i \in 1..Len(PostMixPreps(cfg)) |-> "post_mix"]
    \o (IF cfg.num_epochs = None THEN <<"repeat">> ELSE <<>>)

\* Mixture.get_lazy_dataset with leaf_tasks read from `cache`: the outcomes.
LazyDatasets(m, cfg, cache) ==
  LET leaf  == leaf_tasks(m, cache)
      inner == [cfg EXCEPT !.fc = FALSE, !.batch_size = None]
      per   == [i \in 1..Len(leaf) |->
                  TaskLazyDatasets(leaf[i], inner, preps[leaf[i]])]
  IN {[raised |-> FALSE,
       built  |-> BuildLog(leaf, cfg),
       val    |-> [datasets    |-> dss,
                   proportions |-> [i \in 1..Len(leaf) |->
                                      get_proportion(m, leaf[i], cache)],
                   post_mix    |-> [i \in 1..Len(PostMixPreps(cfg)) |->
                                      <<PostMixPreps(cfg)[i], None>>],
                   repeat      |-> cfg.num_epochs = None]] :
        dss \in Product(per, Len(leaf))}

LazyFailure == [raised |-> TRUE, built |-> <<>>, val |-> <<>>]

\* The Tasks' lists after get_lazy_dataset ran get_task_lazy_dataset on
\* every leaf task with no converter and no batch size.
PrepsAfterLazy(leaf, cfg) ==
  LET inner == [cfg EXCEPT !.fc = FALSE, !.batch_size = None] IN
  [t \in TaskIds |->
     IF t \in Range(leaf) THEN LazyPreps(preps[t], inner) ELSE preps[t]]

\* Mixture.get_dataset wraps the lazy dataset in a loader whose sampler
\* neither shards, shuffles nor repeats.
MixtureLoader(lazy, cfg) ==
  [lazy |-> lazy,
   sampler |-> [shard |-> NoSharding, shuffle |-> FALSE, num_epochs |-> 1,
                seed |-> cfg.seed]]

\* ------------------------------------------------------------ data actions
\* t.get_dataset(...)
TaskGetDatasetCall(cfgs) ==
  /\ \E t \in TaskIds, cfg \in cfgs :
       ret' = [NoCall EXCEPT !.op = "Task.get_dataset", !.m = t, !.args = cfg,
                             !.val = TaskGetDataset(t, cfg)]
  /\ again' = NoCall
  /\ UNCHANGED <<preps, mixtures, leaf_cache>>

\* t.get_dataset_by_step(...)
GetDatasetByStep(cfgs) ==
  /\ \E t \in TaskIds, cfg \in cfgs :
       ret' = [NoCall EXCEPT !.op = "get_dataset_by_step", !.m = t,
                             !.args = cfg,
                             !.val = TaskGetDatasetByStep(t, cfg)]
  /\ again' = NoCall
  /\ UNCHANGED <<preps, mixtures, leaf_cache>>

\* m.get_task_lazy_dataset(task, ...); the method reads nothing of m.
GetTaskLazyDataset(cfgs) ==
  /\ \E t \in TaskIds, cfg \in cfgs :
       /\ Len(LazyPreps(preps[t], cfg)) <= MaxOps
       /\ \E d \in TaskLazyDatasets(t, cfg, preps[t]) :
            ret' = [NoCall EXCEPT !.op = "get_task_lazy_dataset",
                                  !.m = NumTasks + Len(mixtures),
                                  !.x = t, !.args = cfg, !.val = d]
       /\ preps' = [preps EXCEPT ![t] = LazyPreps(preps[t], cfg)]
  /\ again' = NoCall
  /\ UNCHANGED <<mixtures, leaf_cache>>

\* The ways one run of m.get_lazy_dataset(cfg) can end: what it returns or
\* raises, with the leaf_tasks cache and the Tasks' lists it leaves.
LazyOutcomes(m, cfg) ==
  IF LazyRaises(cfg)
  THEN {[r |-> LazyFailure, cache |-> leaf_cache, preps |-> preps]}
  ELSE UNION {{[r |-> r, cache |-> c,
                preps |-> PrepsAfterLazy(leaf_tasks(m, c), cfg)] :
                 r \in LazyDatasets(m, cfg, c)} :
               c \in FillCaches(m, leaf_cache)}

\* m.get_lazy_dataset(...)
GetLazyDataset(cfgs) ==
  /\ \E m \in MixIds, cfg \in cfgs : \E o \in LazyOutcomes(m, cfg) :
       /\ leaf_cache' = o.cache
       /\ preps' = o.preps
       /\ ret' = [NoCall EXCEPT !.op = "get_lazy_dataset", !.m = m,
                                !.args = cfg, !.raised = o.r.raised,
                                !.val = [built |-> o.r.built, ds |-> o.r.val]]
  /\ again' = NoCall
  /\ UNCHANGED mixtures

MixtureResult(r, cfg) ==
  [built |-> r.built,
   ds    |-> IF r.raised THEN <<>> ELSE MixtureLoader(r.val, cfg)]

\* m.get_dataset(...)
MixtureGetDataset(cfgs) ==
  /\ \E m \in MixIds, cfg \in cfgs : \E o \in LazyOutcomes(m, cfg) :
       /\ leaf_cache' = o.cache
       /\ preps' = o.preps
       /\ ret' = [NoCall EXCEPT !.op = "Mixture.get_dataset", !.m = m,
                                !.args = cfg, !.raised = o.r.raised,
                                !.val = MixtureResult(o.r, cfg)]
  /\ again' = NoCall
  /\ UNCHANGED mixtures

\* The last get_dataset call, on a Task or a Mixture, made once more with the
\* same arguments.
RepeatGetDataset ==
  /\ \/ /\ ret.op = "Task.get_dataset"
        /\ again' = [ret EXCEPT !.val = TaskGetDataset(ret.m, ret.args)]
        /\ UNCHANGED <<preps, leaf_cache>>
     \/ /\ ret.op = "Mixture.get_dataset"
        /\ \E o \in LazyOutcomes(ret.m, ret.args) :
             /\ leaf_cache' = o.cache
             /\ preps' = o.preps
             /\ again' = [ret EXCEPT !.raised = o.r.raised,
                                     !.val = MixtureResult(o.r, ret.args)]
  /\ UNCHANGED <<mixtures, ret>>

\* Three Tasks with chains of two, one and no preprocessors, a Mixture
\* N = {Task 1: 3, Task 2: 1} and a Mixture M = {N: 2, Task 2: 1}.
InitChains ==
  [t \in TaskIds |-> IF t = 1 THEN <<Prep(1), Prep(2)>>
                     ELSE IF t = 2 THEN <<Prep(1)>> ELSE <<>>]

InitData ==
  /\ preps = InitChains
  /\ mixtures = <<NewMixture(<<1, 2>>, <<3, 1>>),
                  NewMixture(<<NumTasks + 1, 2>>, <<2, 1>>)>>
  /\ leaf_cache = <<Unset, Unset>>
  /\ ret = NoCall
  /\ again = NoCall

\* Calls that differ in the converter, the batch size and the sample size,
\* the arguments that decide which operations run.
NextData ==
  \/ TaskGetDatasetCall(OpConfigs)
  \/ GetDatasetByStep(StepConfigs)
  \/ GetTaskLazyDataset(OpConfigs)
  \/ GetLazyDataset(OpConfigs)
  \/ MixtureGetDataset(OpConfigs)

SpecData == InitData /\ [][NextData]_vars

\* Calls that differ in the seed, the epochs, shuffling and sharding, the
\* arguments that decide the epochs and the seeds.
NextSeeds ==
  \/ TaskGetDatasetCall(SeedConfigs)
  \/ GetTaskLazyDataset(ShardedSeedConfigs)
  \/ GetLazyDataset(PostMixConfigs)
  \/ MixtureGetDataset(SeedConfigs)
  \/ RepeatGetDataset

SpecSeeds == InitData /\ [][NextSeeds]_vars

\* ---------------------------------------------------- three-level worlds
\* Three Mixtures already constructed, K of Tasks, N naming K and M naming N:
\* every weighting of a family of shapes in which a Task is reached along
\* one, two or three paths; the lazy dataset of any of them is built.
MaxDeepWeight == 2

DeepWeights == 0..MaxDeepWeight

ShapesK == {<<2, 3>>, <<2>>}

ShapesN == {<<NumTasks + 1, 2>>, <<NumTasks + 1>>}

ShapesM == {<<NumTasks + 2, NumTasks + 1>>, <<NumTasks + 2, 2>>,
            <<NumTasks + 2>>}

MixConfigs ==
  [fc : {FALSE}, batch_size : {None}, shuffle : {FALSE}, seed : {0},
   shard_info : {NoSharding}, num_epochs : {1}, num_records : {1}]

InitDeep ==
  /\ preps = InitPreps
  /\ \E t1 \in ShapesK, t2 \in ShapesN, t3 \in ShapesM :
       \E p1 \in [1..Len(t1) -> DeepWeights], p2 \in [1..Len(t2) -> DeepWeights],
          p3 \in [1..Len(t3) -> DeepWeights] :
          mixtures = <<NewMixture(t1, p1), NewMixture(t2, p2),
                       NewMixture(t3, p3)>>
  /\ leaf_cache = <<Unset, Unset, Unset>>
  /\ ret = NoCall
  /\ again = NoCall

NextDeep == GetLazyDataset(MixConfigs)

SpecDeep == InitDeep /\ [][NextDeep]_vars

\* ================================================================ claims
\* The Tasks reachable from an object through any depth of nesting.
RECURSIVE Reach(_)
Reach(o) ==
  IF IsTask(o) THEN {o}
  ELSE UNION {Reach(c) : c \in Range(tasks_or_mixtures(o))}

DirectWeight(m, x) ==
  IF \E i \in 1..Len(Mix(m).tom) : Mix(m).tom[i][2] = x
  THEN Rat(DictGet(Mix(m).props, Hash(x)))
  ELSE Rat(0)

SubMixtures(m) == {o \in Range(tasks_or_mixtures(m)) : IsMixture(o)}

\* The sum of the rationals f[e], e in S.
RECURSIVE RSum(_, _)
RSum(S, f) ==
  IF S = {} THEN Rat(0)
  ELSE LET e == CHOOSE y \in S : TRUE IN RAdd(f[e], RSum(S \ {e}, f))

RECURSIVE IntSum(_, _)
IntSum(S, f) ==
  IF S = {} THEN 0
  ELSE LET e == CHOOSE y \in S : TRUE IN f[e] + IntSum(S \ {e}, f)

\* The sum of a Mixture's direct weights, component by component.
DirectTotal(m) ==
  LET w == [i \in 1..Len(Mix(m).props) |-> Mix(m).props[i][2]]
  IN Rat(IntSum(1..Len(Mix(m).props), w))

\* The spec's example: N = {B: 3, C: 1}, M = {N: 2, A: 1} with A, B, C the
\* Tasks 1, 2, 3, N the Mixture 4 and M the Mixture 5.
IsExample ==
  /\ Len(mixtures) = 2
  /\ mixtures[1] = NewMixture(<<2, 3>>, <<3, 1>>)
  /\ mixtures[2] = NewMixture(<<NumTasks + 1, 1>>, <<2, 1>>)

\* C1: for a Task t among the leaf tasks of M, M.get_proportion(t) is M's own
\* weight for t (0 when t is no direct component) plus, over the direct
\* sub-Mixtures m that reach t, (M's weight for m) * m.get_proportion(t) /
\* m.total_proportion; in the example M gives B 3/2, C 1/2 and A 1.
C1_NestedProportion ==
  ret.op = "get_proportion" /\ ret.x \in Reach(ret.m) =>
    LET subs == {s \in SubMixtures(ret.m) : ret.x \in Reach(s)}
        term == [s \in subs |->
                   RDiv(RMul(DirectWeight(ret.m, s),
                             get_proportion(s, ret.x, leaf_cache)),
                        DirectTotal(s))]
    IN /\ ret.val = RAdd(DirectWeight(ret.m, ret.x), RSum(subs, term))
       /\ IsExample /\ ret.m = NumTasks + 2 =>
            ret.val = CASE ret.x = 2 -> <<3, 2>>
                        [] ret.x = 3 -> <<1, 2>>
                        [] OTHER -> <<1, 1>>

C1_Witness ==
  /\ IsExample
  /\ ret.op = "get_proportion" /\ ret.m = NumTasks + 2 /\ ret.x = 2
  /\ ret.val = <<3, 2>>

\* C2 as stated: get_proportion(x) is 0 for every x, Task or Mixture, that is
\* not among the leaf tasks of M.
C2_ZeroOutsideLeafTasks ==
  ret.op = "get_proportion" /\ ret.x \notin Range(leaf_tasks(ret.m, leaf_cache))
    => ret.val = Rat(0)

\* C2 amended: for x not among the leaf tasks of M, get_proportion(x) is 0
\* when x is a Task or is no direct component of M, and is M's own weight
\* for x when x is a direct sub-Mixture of M.
C2_DirectWeightOutsideLeafTasks ==
  ret.op = "get_proportion" /\ ret.x \notin Reach(ret.m) =>
    /\ ret.val = DirectWeight(ret.m, ret.x)
    /\ IsTask(ret.x) \/ ret.x \notin SubMixtures(ret.m) => ret.val = Rat(0)

C2_Witness ==
  /\ ret.op = "get_proportion" /\ ret.m = NumTasks + 2
  /\ ret.x = NumTasks + 1 /\ ret.x \in SubMixtures(ret.m)
  /\ ret.val = <<2, 1>>

HasDuplicate(s) == \E i, j \in 1..Len(s) : i # j /\ s[i] = s[j]

\* C3: the constructor raises whenever the two lengths differ or an object is
\* named twice, and then constructs nothing; every constructed Mixture holds
\* one proportion per component, keyed one-to-one by the component's identity.
C3_ConstructorChecks ==
  /\ [](/\ ret.op = "Mixture" /\ (\/ Len(ret.args[1]) # Len(ret.args[2])
                                   \/ HasDuplicate(ret.args[1]))
             => ret.raised
        /\ ret.op = "Mixture" /\ ~ret.raised =>
             /\ ret.m = NumTasks + Len(mixtures)
             /\ tasks_or_mixtures(ret.m) = ret.args[1]
             /\ DictValues(Mix(ret.m).props) = ret.args[2]
        /\ \A k \in 1..Len(mixtures) :
             LET mx == mixtures[k] IN
             /\ Len(mx.tom) = Len(mx.props)
             /\ \A i \in 1..Len(mx.tom) :
                  /\ mx.tom[i][1] = Hash(mx.tom[i][2])
                  /\ mx.props[i][1] = mx.tom[i][1]
             /\ ~HasDuplicate(DictValues(mx.tom)))
  /\ [][ret'.op = "Mixture" =>
          IF ret'.raised THEN mixtures' = mixtures
          ELSE Len(mixtures') = Len(mixtures) + 1]_vars

C3_Witness ==
  /\ ret.op = "Mixture" /\ ret.raised
  /\ Len(ret.args[1]) = 2 /\ Len(ret.args[2]) = 2
  /\ HasDuplicate(ret.args[1])
  /\ Len(mixtures) = 1

\* C4: a read of M.leaf_tasks returns the Tasks reachable from M, each once,
\* no Mixture among them, in non-decreasing name order, and a repeated read
\* returns the list the first read returned.
C4_LeafTasks ==
  /\ [](ret.op = "leaf_tasks" =>
          /\ Range(ret.val) = Reach(ret.m)
          /\ Len(ret.val) = Cardinality(Range(ret.val))
          /\ \A i \in 1..Len(ret.val) : IsTask(ret.val[i])
          /\ \A i \in 1..Len(ret.val) - 1 :
               TaskName(ret.val[i]) <= TaskName(ret.val[i + 1])
          /\ ret.val = leaf_cache[MixIdx(ret.m)].val)
  /\ [][\A k \in 1..Len(leaf_cache) :
          leaf_cache[k].set => leaf_cache'[k] = leaf_cache[k]]_vars

C4_Witness ==
  /\ ret.op = "leaf_tasks" /\ ret.m = NumTasks + 2
  /\ tasks_or_mixtures(ret.m) = <<NumTasks + 1, 2>>
  /\ tasks_or_mixtures(NumTasks + 1) = <<1, 2>>
  /\ ret.val = <<2, 1>>

\* The operation list the claim counts for a Task call: the chain, then the
\* converter's transforms if a converter is given, then the batch operation
\* if a batch size is given.
FullOps(t, cfg) ==
  preps[t]
    \o (IF cfg.fc THEN FcTransforms ELSE <<>>)
    \o (IF cfg.batch_size # None
        THEN <<[kind |-> "BatchOperation", n |-> cfg.batch_size]>> ELSE <<>>)

\* C5: get_dataset_by_step returns n + 1 steps for a Task whose operation
\* list has n operations; step 0 is the sample with no operation applied and
\* step i the same sample with exactly the first i operations, in order.
C5_StepsArePrefixes ==
  ret.op = "get_dataset_by_step" =>
    LET full == FullOps(ret.m, ret.args)
        n    == Len(full)
    IN /\ Len(ret.val) = n + 1
       /\ ret.val[1].ops = <<>>
       /\ \A i \in 1..n : ret.val[i + 1].ops = SubSeq(full, 1, i)
       /\ \A i \in 1..(n + 1) :
            /\ ret.val[i].source = ret.m
            /\ ret.val[i].sampler = ret.val[1].sampler

C5_Witness ==
  /\ ret.op = "get_dataset_by_step" /\ ret.m = 1
  /\ ret.args.fc /\ ret.args.batch_size = BatchSize
  /\ Len(preps[1]) = 2
  /\ Len(ret.val) = 6

\* C6 as stated: a get_dataset call repeated with the same arguments, seed
\* included (None too), builds the same pipeline: the same leaf tasks in the
\* same order with the same proportions and the same seed at every
\* preprocessor application and every shuffle.
C6_SameCallSamePipeline ==
  again.op # "none" =>
    /\ again.raised = ret.raised
    /\ again.val = ret.val

\* C7: get_lazy_dataset, and get_dataset through it, raises when num_epochs
\* is None and shuffle is set, having built nothing, and this check raises
\* for no other combination.
C7_InfiniteShuffleRejected ==
  ret.op \in {"get_lazy_dataset", "Mixture.get_dataset"} =>
    IF ret.args.num_epochs = None /\ ret.args.shuffle
    THEN ret.raised /\ ret.val.built = <<>> /\ ret.val.ds = <<>>
    ELSE ~ret.raised /\ ret.val.built # <<>>

C7_Witness ==
  /\ ret.op = "Mixture.get_dataset" /\ ret.raised
  /\ ret.args.num_epochs = None /\ ret.args.shuffle
  /\ ret.val.built = <<>>

\* C8 as stated: whatever calls were made, every Task's own preprocessor
\* chain is the chain it was constructed with.
C8_ChainsUnchanged == preps = InitChains

\* The seeds one per-task lazy dataset consumed: <<epoch, use, seed>> with
\* use i for the i-th preprocessor and 0 for the shuffle.
SeedsConsumed(d) ==
  UNION {{<<e, i, d.epochs[e].preps[i][2]>> : i \in 1..Len(d.epochs[e].preps)}
           \cup (IF d.epochs[e].shuffle = None THEN {}
                 ELSE {<<e, 0, d.epochs[e].shuffle>>}) :
         e \in 1..Len(d.epochs)}

\* C9 as stated: within one get_task_lazy_dataset call no two uses, of a
\* preprocessor or of a shuffle, in one epoch or in two, get the same seed.
C9_SeedsPairwiseDistinct ==
  ret.op = "get_task_lazy_dataset" =>
    \A a, b \in SeedsConsumed(ret.val) : a # b => a[3] # b[3]

EpochsAsAsked(d, cfg) ==
  /\ Len(d.epochs) = IF cfg.num_epochs = None THEN 1 ELSE cfg.num_epochs
  /\ \A e \in 1..Len(d.epochs) :
       d.epochs[e].base.shard = cfg.shard_info

\* C10 as stated: for every finite num_epochs, 0 and 1 included, the per-task
\* dataset is made of exactly num_epochs epochs; only for None is it one
\* epoch, and then the mixed dataset, after the post-mix operations, is
\* wrapped once in the infinite repeat, which a finite num_epochs never is.
C10_EpochReplicas ==
  /\ ret.op = "get_task_lazy_dataset" => EpochsAsAsked(ret.val, ret.args)
  /\ ret.op = "get_lazy_dataset" /\ ~ret.raised =>
       /\ \A i \in 1..Len(ret.val.ds.datasets) :
            EpochsAsAsked(ret.val.ds.datasets[i], ret.args)
       /\ ret.val.ds.repeat = (ret.args.num_epochs = None)
       /\ \A i \in 1..Len(ret.val.built) :
            ret.val.built[i] = "repeat" =>
              i = Len(ret.val.built) /\ ret.args.num_epochs = None

\* The Mixtures nested in m at any depth.
RECURSIVE Nested(_)
Nested(m) ==
  SubMixtures(m) \cup UNION {Nested(s) : s \in SubMixtures(m)}

NestedTotalsNonZero(m) == \A s \in Nested(m) : DirectTotal(s) # Rat(0)

\* The sum of the rationals s[1], ..., s[i].
RECURSIVE RSumSeq(_, _)
RSumSeq(s, i) == IF i = 0 THEN Rat(0) ELSE RAdd(RSumSeq(s, i - 1), s[i])

\* C11: when every Mixture nested in M at any depth has a non-zero
\* total_proportion, the get_proportion values of M's leaf tasks sum to the
\* sum of M's direct weights, and so do the proportions get_lazy_dataset
\* hands to the mixing step.
C11_ProportionsSumToTotal ==
  /\ \A m \in MixIds :
       leaf_cache[MixIdx(m)].set /\ NestedTotalsNonZero(m) =>
         LET leaf == leaf_tasks(m, leaf_cache)
             p    == [i \in 1..Len(leaf) |-> get_proportion(m, leaf[i], leaf_cache)]
         IN RSumSeq(p, Len(leaf)) = DirectTotal(m)
  /\ ret.op = "get_lazy_dataset" /\ ~ret.raised /\ NestedTotalsNonZero(ret.m) =>
       /\ Len(ret.val.ds.proportions) = Cardinality(Reach(ret.m))
       /\ RSumSeq(ret.val.ds.proportions, Len(ret.val.ds.proportions))
            = DirectTotal(ret.m)

\* M = {N: 2, K: 1}, N = {K: 1, Task 2: 1}, K = {Task 2: 2, Task 3: 1}: Task 2
\* is reached along three paths, and the proportions 7/3 and 2/3 sum to 3.
C11_Witness ==
  /\ mixtures = <<NewMixture(<<2, 3>>, <<2, 1>>),
                  NewMixture(<<NumTasks + 1, 2>>, <<1, 1>>),
                  NewMixture(<<NumTasks + 2, NumTasks + 1>>, <<2, 1>>)>>
  /\ ret.op = "get_lazy_dataset" /\ ret.m = NumTasks + 3 /\ ~ret.raised
  /\ NestedTotalsNonZero(ret.m)
  /\ Range(ret.val.ds.proportions) = {<<7, 3>>, <<2, 3>>}
====
